---- MODULE Spec2Model ----
(***************************************************************************)
(* Reservation tools and per-thread booking state of the dineai restaurant *)
(* assistant: book_table / check_availability / get_alternative_times,     *)
(* modify_reservation, cancel_reservation, view_reservation (src/tools)    *)
(* and run_agent's booking accumulator (src/agent.py).                     *)
(*                                                                         *)
(* Encoding of the program's values:                                       *)
(*   a date "YYYY-MM-DD" is its day ordinal (an integer);                  *)
(*   a time string is the sequence of its ':'-separated numbers:           *)
(*     "19:00" is <<19,0>>, "19:00:00" is <<19,0,0>>, "19" is <<19>>;      *)
(*   a name is the sequence of its characters;                             *)
(*   an optional argument is <<>> (None) or <<v>>.                         *)
(***************************************************************************)
EXTENDS Integers, Sequences, FiniteSets, TLC

\* ------------------------------------------------------------ bounds
\* ids the store hands out in one behaviour (inserts are capped by it)
MaxId == 2
\* rows of the stores the availability check is applied to
MaxRows == 3
\* run_agent calls started in one behaviour
MaxCalls == 3
\* days that pass in one behaviour
MaxDays == 1
\* the reference dates of parse_natural_date are FirstDay..FirstDay + MaxDayOffset
MaxDayOffset == 13
\* the generated utterances hold up to MaxWords words
MaxWords == 3

\* ------------------------------------------------- program constants
DEFAULT_MAX_TABLES == 10
DEFAULT_MAX_CAPACITY_PER_TIME_SLOT == 50
ALT_MAX_CAPACITY == 50
ALT_MAX_TABLES == 10
MAX_PARTY_SIZE == 20
OPEN_HOUR == 10
CLOSE_HOUR == 23
MAX_SUGGESTIONS == 3
\* the limits written into show_daily_availability and
\* get_alternative_times_for_availability
TOOL_MAX_CAPACITY == 50
TOOL_MAX_TABLES == 10
\* the day ordinal of the day the process starts (a Thursday)
FirstDay == 10
\* the days of a year of the calendar
YEAR_DAYS == 365

VARIABLES
    env,            \* os.environ: [MAX_TABLES, MAX_CAPACITY_PER_TIME_SLOT]
    today,          \* datetime.now().date() as a day ordinal
    bookings,       \* rows of the store's "bookings" table
    nextId,         \* the id the store assigns to the next inserted row
    last,           \* the last tool call: its arguments, store calls and result
    cancelled,      \* history: the ids whose row cancel_reservation deleted
    inflight,       \* book_table calls between their check and their insert
    booking_state,  \* agent.py booking_state: thread_id -> dict of slots
    seen_threads,   \* agent.py seen_threads
    running,        \* run_agent calls in progress: their locals and position
    sent,           \* the last agent.invoke: thread, messages, outcome
    extracted,      \* history: the slot names extracted so far, per thread
    started,        \* history: the number of run_agent calls started
    invocations     \* history: per thread, the agent.invoke calls in order:
                    \* whether each carried the system prompt, and whether it succeeded

toolVars == <<env, today, bookings, nextId, last, cancelled>>
concVars == <<inflight>>
agentVars == <<booking_state, seen_threads, running, sent, extracted, started, invocations>>
vars == <<env, today, bookings, nextId, last, cancelled, inflight,
          booking_state, seen_threads, running, sent, extracted, started, invocations>>

\* ------------------------------------------------------------ helpers
Some(v) == <<v>>
None == <<>>

RECURSIVE SumGuests(_)
\* sum(reservation.get("guests", 0) for reservation in rows)
SumGuests(rows) ==
    IF rows = <<>> THEN 0 ELSE Head(rows).guests + SumGuests(Tail(rows))

RECURSIVE Strip(_)
\* str.strip(): drop leading and trailing blanks
Strip(s) ==
    IF s = <<>> THEN s
    ELSE IF Head(s) = " " THEN Strip(Tail(s))
    ELSE IF s[Len(s)] = " " THEN Strip(SubSeq(s, 1, Len(s) - 1))
    ELSE s

\* ------------------------------------------------------------ the agent
\* A dict of slots is a function from the keys it has to their values; a text
\* is the sequence of its words.
EmptyDict == [k \in {} |-> ""]

\* str.title() on the words of the utterances
Title(word) ==
    CASE word = "dan" -> "Dan"
      [] word = "ann" -> "Ann"
      [] word = "tomorrow" -> "Tomorrow"
      [] word = "friday" -> "Friday"
      [] word = "thanks" -> "Thanks"
      [] word = "for" -> "For"
      [] word = "at" -> "At"
      [] word = "next" -> "Next"
      [] word = "people" -> "People"
      [] word = "is" -> "Is"
      [] OTHER -> word

\* [A-Z][a-z]+ under re.I: a word of two or more letters
IsWord(token) ==
    token \in {"my", "name", "is", "dan", "Dan", "ann", "Ann", "party", "of", "for", "at",
               "tomorrow", "today", "tonight", "friday", "next", "thanks", "people", "and",
               "lot"}
\* \d+
IsNumber(token) == token \in {"4", "5", "7"}

\* the places where the words of `phrase` occur in `text`
Occurrences(text, phrase) ==
    {i \in 1..Len(text) :
        /\ i + Len(phrase) - 1 <= Len(text)
        /\ SubSeq(text, i, i + Len(phrase) - 1) = phrase}

Min(S) == CHOOSE x \in S : \A y \in S : x <= y

\* NAME_PATTERNS: "my name is X [Y]" or "name X [Y]", whichever starts first,
\* else a text that is one word, or one word then "for N"
ExtractName(text) ==
    LET intro == {i \in Occurrences(text, <<"my", "name", "is">>) :
                    i + 3 <= Len(text) /\ IsWord(text[i + 3])}
        bare == {i \in Occurrences(text, <<"name">>) :
                   i + 1 <= Len(text) /\ IsWord(text[i + 1])}
        at == intro \cup bare
    IN  IF at # {}
        THEN LET i == IF Min(at) \in intro THEN Min(at) + 3 ELSE Min(at) + 1
             IN  IF i + 1 <= Len(text) /\ IsWord(text[i + 1])
                 THEN <<Title(text[i]), Title(text[i + 1])>>
                 ELSE <<Title(text[i])>>
        ELSE IF /\ Len(text) \in {1, 3}
                /\ IsWord(text[1])
                /\ Len(text) = 3 => (text[2] = "for" /\ IsNumber(text[3]))
        THEN <<Title(text[1])>>
        ELSE <<>>

\* \d{4}-\d{1,2}-\d{1,2} and \d{1,2}/\d{1,2}(?:/\d{2,4})?
IsIsoDate(token) == token \in {"2025-10-21"}
IsSlashDate(token) == token \in {"10/21"}

\* DATE_PATTERNS, in their order: today/tomorrow/tonight, a weekday name, an
\* ISO date, MM/DD, "next" and a weekday name
ExtractDate(text) ==
    LET relative == {i \in 1..Len(text) : text[i] \in {"today", "tomorrow", "tonight"}}
        weekday == {i \in 1..Len(text) : text[i] \in {"friday"}}
        iso == {i \in 1..Len(text) : IsIsoDate(text[i])}
        slash == {i \in 1..Len(text) : IsSlashDate(text[i])}
        nextWeekday == Occurrences(text, <<"next", "friday">>)
    IN  IF relative # {} THEN <<text[Min(relative)]>>
        ELSE IF weekday # {} THEN <<text[Min(weekday)]>>
        ELSE IF iso # {} THEN <<text[Min(iso)]>>
        ELSE IF slash # {} THEN <<text[Min(slash)]>>
        ELSE IF nextWeekday # {} THEN <<"next", text[Min(nextWeekday) + 1]>>
        ELSE <<>>

\* a token written against the token before it, with no space between
Glued(token) == token = ","

\* PARTY_PATTERNS: "for N <word>" (white space, then a word or number, must
\* follow N), "N people", "party of N"
ExtractParty(text) ==
    LET forN == {i \in Occurrences(text, <<"for">>) :
                   i + 2 <= Len(text) /\ IsNumber(text[i + 1]) /\ ~Glued(text[i + 2])}
        nPeople == {i \in 1..Len(text) :
                      IsNumber(text[i]) /\ i + 1 <= Len(text) /\ text[i + 1] = "people"}
        partyOf == {i \in Occurrences(text, <<"party", "of">>) :
                      i + 2 <= Len(text) /\ IsNumber(text[i + 2])}
    IN  IF forN # {} THEN <<text[Min(forN) + 1]>>
        ELSE IF nPeople # {} THEN <<text[Min(nPeople)]>>
        ELSE IF partyOf # {} THEN <<text[Min(partyOf) + 2]>>
        ELSE <<>>

\* \d{1,2}:\d{2}\s?(?:am|pm)? and \d{1,2}\s?(?:am|pm) written as one word
IsClockColon(token) == token \in {"7:30", "7:30pm"}
IsClockAmPm(token) == token \in {"7pm", "8pm"}

\* TIME_PATTERNS, in their order: H:MM [am|pm], H am|pm, "at H"
ExtractTime(text) ==
    LET colon == {i \in 1..Len(text) : IsClockColon(text[i])}
        ampm == {i \in 1..Len(text) : IsClockAmPm(text[i])}
        spaced == {i \in 1..Len(text) :
                     IsNumber(text[i]) /\ i + 1 <= Len(text) /\ text[i + 1] \in {"am", "pm"}}
        atN == {i \in Occurrences(text, <<"at">>) :
                  i + 1 <= Len(text) /\ (IsNumber(text[i + 1]) \/ IsSlashDate(text[i + 1]))}
    IN  IF colon # {} THEN <<text[Min(colon)]>>
        ELSE IF ampm \cup spaced # {}
        THEN LET i == Min(ampm \cup spaced)
             IN  IF i \in ampm THEN <<text[i]>> ELSE <<text[i], text[i + 1]>>
        ELSE IF atN # {}
        THEN IF IsSlashDate(text[Min(atN) + 1]) THEN <<"10">> ELSE <<text[Min(atN) + 1]>>
        ELSE <<>>

\* \+?\d[\d\-\s]{7,}\d written as one word: an ISO date is one too
IsPhone(token) == token \in {"5551234567"} \/ IsIsoDate(token)

\* PHONE_PATTERNS
ExtractPhone(text) ==
    LET phone == {i \in 1..Len(text) : IsPhone(text[i])}
    IN  IF phone # {} THEN <<text[Min(phone)]>> ELSE <<>>

Fields == {"name", "date", "time", "party_size", "phone"}

extract_booking_info_all_keys(text) ==
    [name |-> ExtractName(text), date |-> ExtractDate(text),
     time |-> ExtractTime(text), party_size |-> ExtractParty(text),
     phone |-> ExtractPhone(text)]

\* extract_booking_info(text): the slots the patterns find
extract_booking_info(text) ==
    LET found == [name |-> ExtractName(text), date |-> ExtractDate(text),
                  time |-> ExtractTime(text), party_size |-> ExtractParty(text),
                  phone |-> ExtractPhone(text)]
        keys == {k \in Fields : found[k] # <<>>}
    IN  [k \in keys |-> found[k]]

merged_slots_replacing(state, updates) == updates

merged_slots_keeping_old(state, updates) ==
    [k \in DOMAIN state \cup {u \in DOMAIN updates : updates[u] # <<>>} |->
        IF k \in DOMAIN state THEN state[k] ELSE updates[k]]

merged_slots_appending(state, updates) ==
    [k \in DOMAIN state \cup {u \in DOMAIN updates : updates[u] # <<>>} |->
        IF k \in DOMAIN state /\ k \in DOMAIN updates THEN state[k] \o updates[k]
        ELSE IF k \in DOMAIN updates THEN updates[k] ELSE state[k]]

\* state.update({k: v for k, v in updates.items() if v})
merged_slots(state, updates) ==
    [k \in DOMAIN state \cup {u \in DOMAIN updates : updates[u] # <<>>} |->
        IF k \in DOMAIN updates /\ updates[k] # <<>> THEN updates[k] ELSE state[k]]

\* val(k): info.get(k, "unknown")
SummaryValues(info) ==
    [k \in Fields |-> IF k \in DOMAIN info THEN info[k] ELSE <<"unknown">>]

summarize_booking_info_with_phone(info) ==
    LET required == <<"name", "date", "time", "party_size", "phone">>
        missing == SelectSeq(required, LAMBDA k : ~(k \in DOMAIN info /\ info[k] # <<>>))
    IN  [role |-> "system", kind |-> "summary", state |-> info,
         values |-> SummaryValues(info), missing |-> missing,
         instruction |-> IF missing # <<>> THEN "ask only for missing" ELSE "call book_table now"]

summarize_booking_info_eager(info) ==
    LET required == <<"name", "date", "time", "party_size">>
        missing == SelectSeq(required, LAMBDA k : ~(k \in DOMAIN info /\ info[k] # <<>>))
    IN  [role |-> "system", kind |-> "summary", state |-> info,
         values |-> SummaryValues(info), missing |-> missing,
         instruction |-> IF Len(missing) > 1 THEN "ask only for missing"
                         ELSE "call book_table now"]

\* summarize_booking_info(info): the values shown, the MISSING list and the
\* instruction that follows it
summarize_booking_info(info) ==
    LET required == <<"name", "date", "time", "party_size">>
        missing == SelectSeq(required, LAMBDA k : ~(k \in DOMAIN info /\ info[k] # <<>>))
    IN  [role |-> "system", kind |-> "summary", state |-> info,
         values |-> SummaryValues(info), missing |-> missing,
         instruction |-> IF missing # <<>> THEN "ask only for missing" ELSE "call book_table now"]

\* ------------------------------------------------------------ the store
\* A row of "bookings": [id, name, date, time, guests]; ids are the primary key.
RECURSIVE InIdOrder(_)
\* the rows a select returns, as a list (in id order)
InIdOrder(rows) ==
    IF rows = {} THEN <<>>
    ELSE LET r == CHOOSE x \in rows : \A y \in rows : x.id <= y.id
         IN  <<r>> \o InIdOrder(rows \ {r})

\* supabase.table("bookings").select("*").eq("date", date).eq("time", t)
SelectSlot(store, date, t) ==
    InIdOrder({r \in store : r.date = date /\ r.time = t})

SelectId_any(store, id) ==
    InIdOrder(store)

\* supabase.table("bookings").select("*").eq("id", id)
SelectId(store, id) ==
    InIdOrder({r \in store : r.id = id})

\* ------------------------------------------------------------ dates, times
\* date.weekday(): ordinal 0 is a Monday
Weekday(d) == d % 7

ParsedDate(d) == [ok |-> TRUE, date |-> d]
UnparsableDate == [ok |-> FALSE, date |-> 0]

\* today.year, and datetime(year, month, day).date(): years of YEAR_DAYS days
YearOf(d) == d \div YEAR_DAYS
DateOf(year, day_of_year) == year * YEAR_DAYS + day_of_year

\* "Month Day" and "Month Day, Year": the year is the one written (20xx), else
\* the current one; a date before today moves to the year after
MonthDay(date_input, now) ==
    LET year == IF date_input.year = None THEN YearOf(now) ELSE date_input.year[1]
        parsed_date == DateOf(year, date_input.n)
    IN  ParsedDate(IF parsed_date < now THEN DateOf(year + 1, date_input.n) ELSE parsed_date)

\* MM/DD and MM/DD/YYYY: the current year is appended to a text without one,
\* so the second parse, with next year as the default, returns the same date
SlashDate(date_input, now) ==
    LET year == IF date_input.year = None THEN YearOf(now) ELSE date_input.year[1]
    IN  ParsedDate(DateOf(year, date_input.n))

parse_natural_date_same_day(date_input, now) ==
    CASE date_input.form = "today" -> ParsedDate(now)
      [] date_input.form = "tomorrow" -> ParsedDate(now + 1)
      [] date_input.form = "day after tomorrow" -> ParsedDate(now + 2)
      [] date_input.form = "next week" -> ParsedDate(now + 7)
      [] date_input.form = "next weekday" ->
            LET days_ahead == date_input.n - Weekday(now)
            IN  ParsedDate(now + (IF days_ahead <= 0 THEN days_ahead + 7 ELSE days_ahead))
      [] date_input.form = "weekday" ->
            LET days_ahead == date_input.n - Weekday(now)
            IN  ParsedDate(now + (IF days_ahead < 0 THEN days_ahead + 7 ELSE days_ahead))
      [] date_input.form = "month day" -> MonthDay(date_input, now)
      [] date_input.form = "mm/dd" -> SlashDate(date_input, now)
      [] date_input.form = "iso" -> ParsedDate(date_input.n)
      [] OTHER -> UnparsableDate

\* parse_natural_date(date_input) with datetime.now().date() = now.
\* date_input is [form, n]: n is the weekday number of the weekday forms and
\* the day ordinal of the "iso" form.
parse_natural_date(date_input, now) ==
    CASE date_input.form = "today" -> ParsedDate(now)
      [] date_input.form = "tomorrow" -> ParsedDate(now + 1)
      [] date_input.form = "day after tomorrow" -> ParsedDate(now + 2)
      [] date_input.form = "next week" -> ParsedDate(now + 7)
      [] date_input.form = "next weekday" ->
            LET days_ahead == date_input.n - Weekday(now)
            IN  ParsedDate(now + (IF days_ahead <= 0 THEN days_ahead + 7 ELSE days_ahead))
      [] date_input.form = "weekday" ->
            LET days_ahead == date_input.n - Weekday(now)
            IN  ParsedDate(now + (IF days_ahead < 0 THEN days_ahead + 7
                                  ELSE IF days_ahead = 0 THEN 7 ELSE days_ahead))
      [] date_input.form = "month day" -> MonthDay(date_input, now)
      [] date_input.form = "mm/dd" -> SlashDate(date_input, now)
      [] date_input.form = "iso" -> ParsedDate(date_input.n)
      [] OTHER -> UnparsableDate

\* datetime.strptime(time, "%H:%M") succeeds
IsHHMM(time) ==
    /\ Len(time) = 2
    /\ time[1] \in 0..23
    /\ time[2] \in 0..59

OutOfHours_open_end(time) == time[1] < OPEN_HOUR

\* hour < 10 or hour >= 23
OutOfHours(time) == time[1] < OPEN_HOUR \/ time[1] >= CLOSE_HOUR

\* ------------------------------------------------------------ availability
RECURSIVE Dedup(_, _)
\* the "seen_ids" loop: keep the first row of every id
Dedup(rows, seen_ids) ==
    IF rows = <<>> THEN <<>>
    ELSE IF Head(rows).id \in seen_ids THEN Dedup(Tail(rows), seen_ids)
    ELSE <<Head(rows)>> \o Dedup(Tail(rows), seen_ids \cup {Head(rows).id})

\* [time, f"{time}:00"]
time_patterns(time) == <<time, time \o <<0>>>>

\* the rows of both time patterns, once per id
unique_reservations(store, date, time) ==
    Dedup(SelectSlot(store, date, time_patterns(time)[1])
          \o SelectSlot(store, date, time_patterns(time)[2]), {})

\* f"* {time_slot} - Available for {party_size} people"
SlotSuggestion(hour, party_size) == [slot |-> <<hour, 0>>, party |-> party_size]
\* "* Please call us at (555) 123-4567 for availability"
CallUs == [slot |-> <<>>, party |-> 0]

\* the slot of get_alternative_times' loop can take the party
AltAdmissible(store, date, hour, party_size) ==
    LET rows == unique_reservations(store, date, <<hour, 0>>)
    IN  SumGuests(rows) + party_size <= ALT_MAX_CAPACITY /\ Len(rows) < ALT_MAX_TABLES

RECURSIVE AltCandidates(_, _, _, _, _)
\* the (hour_diff, text) list the loop over range(10, 23) builds, from `hour` on
AltCandidates(store, date, requested_time, party_size, hour) ==
    IF hour >= CLOSE_HOUR THEN <<>>
    ELSE LET rest == AltCandidates(store, date, requested_time, party_size, hour + 1)
             d == hour - requested_time[1]
             hour_diff == IF d < 0 THEN -d ELSE d
         IN  IF <<hour, 0>> = requested_time THEN rest
             ELSE IF AltAdmissible(store, date, hour, party_size)
                  THEN <<[diff |-> hour_diff, text |-> SlotSuggestion(hour, party_size)]>> \o rest
                  ELSE rest

RECURSIVE InsertByDiff(_, _)
\* put x after every element whose key is <= its own (a stable insertion)
InsertByDiff(x, sorted) ==
    IF sorted = <<>> THEN <<x>>
    ELSE IF Head(sorted).diff <= x.diff THEN <<Head(sorted)>> \o InsertByDiff(x, Tail(sorted))
    ELSE <<x>> \o sorted

RECURSIVE SortByDiff(_)
\* suggestions.sort(key=lambda x: x[0]): stable
SortByDiff(xs) ==
    IF xs = <<>> THEN <<>>
    ELSE InsertByDiff(xs[Len(xs)], SortByDiff(SubSeq(xs, 1, Len(xs) - 1)))

Texts(xs) == [i \in 1..Len(xs) |-> xs[i].text]

get_alternative_times_unsorted(store, date, requested_time, party_size, altOk) ==
    IF ~altOk THEN <<CallUs>>
    ELSE LET found == AltCandidates(store, date, requested_time, party_size, OPEN_HOUR)
         IN  Texts(SubSeq(found, 1, IF Len(found) < MAX_SUGGESTIONS THEN Len(found)
                                    ELSE MAX_SUGGESTIONS))

\* get_alternative_times(date, requested_time, party_size); altOk is FALSE when
\* one of its selects raises
get_alternative_times(store, date, requested_time, party_size, altOk) ==
    IF ~altOk THEN <<CallUs>>
    ELSE LET sorted == SortByDiff(AltCandidates(store, date, requested_time, party_size, OPEN_HOUR))
         IN  Texts(SubSeq(sorted, 1, IF Len(sorted) < MAX_SUGGESTIONS THEN Len(sorted)
                                     ELSE MAX_SUGGESTIONS))

check_availability_ignoring_party(store, cfg, date, time, party_size, readOk, altOk) ==
    LET rows == unique_reservations(store, date, time)
        total_guests_booked == SumGuests(rows)
    IN  IF ~readOk
        THEN [available |-> TRUE, reason |-> "unverified", suggestions |-> <<>>]
        ELSE IF rows # <<>> /\ total_guests_booked > cfg.MAX_CAPACITY_PER_TIME_SLOT
        THEN [available |-> FALSE, reason |-> "capacity",
              suggestions |-> get_alternative_times(store, date, time, party_size, altOk)]
        ELSE IF rows # <<>> /\ Len(rows) >= cfg.MAX_TABLES
        THEN [available |-> FALSE, reason |-> "tables",
              suggestions |-> get_alternative_times(store, date, time, party_size, altOk)]
        ELSE [available |-> TRUE, reason |-> "available", suggestions |-> <<>>]

check_availability_fail_closed(store, cfg, date, time, party_size, readOk, altOk) ==
    LET rows == unique_reservations(store, date, time)
        total_guests_booked == SumGuests(rows)
    IN  IF ~readOk
        THEN [available |-> FALSE, reason |-> "unverified", suggestions |-> <<>>]
        ELSE IF rows # <<>> /\ total_guests_booked + party_size > cfg.MAX_CAPACITY_PER_TIME_SLOT
        THEN [available |-> FALSE, reason |-> "capacity",
              suggestions |-> get_alternative_times(store, date, time, party_size, altOk)]
        ELSE IF rows # <<>> /\ Len(rows) >= cfg.MAX_TABLES
        THEN [available |-> FALSE, reason |-> "tables",
              suggestions |-> get_alternative_times(store, date, time, party_size, altOk)]
        ELSE [available |-> TRUE, reason |-> "available", suggestions |-> <<>>]

\* check_availability(date, time, party_size) under configuration cfg; readOk is
\* FALSE when a select of the requested slot raises
check_availability(store, cfg, date, time, party_size, readOk, altOk) ==
    LET rows == unique_reservations(store, date, time)
        total_guests_booked == SumGuests(rows)
    IN  IF ~readOk
        THEN [available |-> TRUE, reason |-> "unverified", suggestions |-> <<>>]
        ELSE IF rows # <<>> /\ total_guests_booked + party_size > cfg.MAX_CAPACITY_PER_TIME_SLOT
        THEN [available |-> FALSE, reason |-> "capacity",
              suggestions |-> get_alternative_times(store, date, time, party_size, altOk)]
        ELSE IF rows # <<>> /\ Len(rows) >= cfg.MAX_TABLES
        THEN [available |-> FALSE, reason |-> "tables",
              suggestions |-> get_alternative_times(store, date, time, party_size, altOk)]
        ELSE [available |-> TRUE, reason |-> "available", suggestions |-> <<>>]

\* ------------------------------------------------------------ tool calls
\* The store calls one tool call issued: 1 for each kind of call it issued at
\* least once.
NoIO == [selects |-> 0, inserts |-> 0, updates |-> 0, deletes |-> 0]
\* What a call of a tool raises in the store: a select of check_availability's
\* requested slot, a select of get_alternative_times, the tool's own select by
\* id, or its write (insert, update, delete).
NoFault == [check |-> FALSE, alt |-> FALSE, read |-> FALSE, write |-> FALSE]
Faults ==
    { NoFault,
      [NoFault EXCEPT !.check = TRUE],
      [NoFault EXCEPT !.alt = TRUE],
      [NoFault EXCEPT !.write = TRUE] }
IdFaults ==
    { NoFault, [NoFault EXCEPT !.read = TRUE], [NoFault EXCEPT !.write = TRUE] }

NoCheck == [available |-> FALSE, reason |-> "none", suggestions |-> <<>>]
NoRow == [id |-> 0, name |-> <<>>, date |-> 0, time |-> <<>>, guests |-> 0]

\* the result of a call that stopped before the store was written
Returned(out, check, io) ==
    [out |-> out, check |-> check, io |-> io, row |-> NoRow, wrote |-> FALSE]

\* the slot of get_alternative_times_for_availability's loop can take the party
ToolAltAdmissible(store, date, hour, party_size) ==
    LET rows == SelectSlot(store, date, <<hour, 0>>)
    IN  SumGuests(rows) + party_size <= TOOL_MAX_CAPACITY /\ Len(rows) < TOOL_MAX_TABLES

RECURSIVE ToolAltCandidates(_, _, _, _, _)
\* the (hour_diff, text) list the loop over range(10, 23) builds, from `hour` on
ToolAltCandidates(store, date, requested_time, party_size, hour) ==
    IF hour >= CLOSE_HOUR THEN <<>>
    ELSE LET rest == ToolAltCandidates(store, date, requested_time, party_size, hour + 1)
             d == hour - requested_time[1]
             hour_diff == IF d < 0 THEN -d ELSE d
         IN  IF <<hour, 0>> = requested_time THEN rest
             ELSE IF ToolAltAdmissible(store, date, hour, party_size)
                  THEN <<[diff |-> hour_diff, text |-> SlotSuggestion(hour, party_size)]>> \o rest
                  ELSE rest

\* get_alternative_times_for_availability(date, requested_time, party_size):
\* an empty list when one of its selects raises
get_alternative_times_for_availability(store, date, requested_time, party_size, altOk) ==
    IF ~altOk THEN <<>>
    ELSE LET sorted == SortByDiff(ToolAltCandidates(store, date, requested_time, party_size,
                                                    OPEN_HOUR))
         IN  Texts(SubSeq(sorted, 1, IF Len(sorted) < MAX_SUGGESTIONS THEN Len(sorted)
                                     ELSE MAX_SUGGESTIONS))

\* check_specific_time_availability(date, time, party_size) under configuration
\* cfg; party_size 0 stands for None (`if party_size:`); readOk is FALSE when
\* the select of the slot raises
check_specific_time_availability(store, cfg, date, time, party_size, readOk, altOk) ==
    LET rows == SelectSlot(store, date, time)
        total_guests == SumGuests(rows)
        tables_booked == Len(rows)
        available_capacity == cfg.MAX_CAPACITY_PER_TIME_SLOT - total_guests
        available_tables == cfg.MAX_TABLES - tables_booked
    IN  IF ~readOk
        THEN Returned("ErrorCheckingSpecificTime", NoCheck, [NoIO EXCEPT !.selects = 1])
        ELSE IF party_size # 0
        THEN IF available_capacity >= party_size /\ available_tables > 0
             THEN Returned("Available",
                           [available |-> TRUE, reason |-> "available", suggestions |-> <<>>],
                           [NoIO EXCEPT !.selects = 1])
             ELSE Returned("NotAvailable",
                           [available |-> FALSE, reason |-> "party",
                            suggestions |-> get_alternative_times_for_availability(
                                                store, date, time, party_size, altOk)],
                           [NoIO EXCEPT !.selects = 1])
        ELSE IF available_tables > 0
        THEN Returned("Available",
                      [available |-> TRUE, reason |-> "available", suggestions |-> <<>>],
                      [NoIO EXCEPT !.selects = 1])
        ELSE Returned("FullyBooked",
                      [available |-> FALSE, reason |-> "tables", suggestions |-> <<>>],
                      [NoIO EXCEPT !.selects = 1])

\* the slot of show_daily_availability's loop is listed as available
DailyAvailable(store, date, hour, party_size) ==
    LET reservations == SelectSlot(store, date, <<hour, 0>>)
        available_capacity == TOOL_MAX_CAPACITY - SumGuests(reservations)
        available_tables == TOOL_MAX_TABLES - Len(reservations)
    IN  IF reservations = <<>> THEN TRUE
        ELSE IF party_size # 0
        THEN available_capacity >= party_size /\ available_tables > 0
        ELSE available_tables > 0

RECURSIVE DailySlots(_, _, _, _)
\* available_slots, from `hour` on
DailySlots(store, date, party_size, hour) ==
    IF hour >= CLOSE_HOUR THEN <<>>
    ELSE (IF DailyAvailable(store, date, hour, party_size)
          THEN <<SlotSuggestion(hour, party_size)>> ELSE <<>>)
         \o DailySlots(store, date, party_size, hour + 1)

\* show_daily_availability(date, party_size); readOk is FALSE when its select
\* raises
show_daily_availability(store, date, party_size, readOk) ==
    LET available_slots == DailySlots(store, date, party_size, OPEN_HOUR)
    IN  IF ~readOk
        THEN Returned("ErrorShowingDaily", NoCheck, [NoIO EXCEPT !.selects = 1])
        ELSE Returned("Daily",
                      [available |-> available_slots # <<>>, reason |-> "daily",
                       suggestions |-> available_slots],
                      [NoIO EXCEPT !.selects = 1])

\* check_table_availability(date, time, party_size); time <<>> stands for
\* None or "" (`if time:`)
check_table_availability(store, cfg, now, date, time, party_size, fault) ==
    LET parsed == parse_natural_date(date, now)
    IN  IF ~parsed.ok THEN Returned("UnparsableDate", NoCheck, NoIO)
        ELSE IF parsed.date < now THEN Returned("PastDate", NoCheck, NoIO)
        ELSE IF time # <<>>
        THEN IF ~IsHHMM(time) THEN Returned("InvalidTimeFormat", NoCheck, NoIO)
             ELSE IF OutOfHours(time) THEN Returned("OutOfHours", NoCheck, NoIO)
             ELSE check_specific_time_availability(store, cfg, parsed.date, time, party_size,
                                                   ~fault.check, ~fault.alt)
        ELSE show_daily_availability(store, parsed.date, party_size, ~fault.check)

\* the first word of the text a tool returns for an outcome
FirstWord(out) ==
    CASE out \in {"EmptyName", "PartySizeNotPositive", "PartySizeTooLarge", "UnparsableDate",
                  "PastDate", "InvalidDateFormat", "InvalidTimeFormat", "OutOfHours",
                  "InvalidId", "NotFound", "NoChangesProvided", "StoreError",
                  "UnexpectedError"} -> "Error:"
      [] out \in {"ErrorCheckingSpecificTime", "ErrorShowingDaily"} -> "Error"
      [] out \in {"Booked", "Cancelled", "Modified"} -> "(check mark)"
      [] out = "Unavailable" -> "(cross mark)"
      [] out = "Details" -> "(clipboard)"
      [] out \in {"Available", "NotAvailable", "FullyBooked", "Daily"} -> "(calendar)"
      [] OTHER -> ""

\* book_table's argument validation: the error it returns, or "ok"
validate_booking_unbounded(name, parsed, now, time, party_size) ==
    IF name = <<>> \/ Strip(name) = <<>> THEN "EmptyName"
    ELSE IF party_size <= 0 THEN "PartySizeNotPositive"
    ELSE IF ~parsed.ok THEN "UnparsableDate"
    ELSE IF parsed.date < now THEN "PastDate"
    ELSE IF ~IsHHMM(time) THEN "InvalidTimeFormat"
    ELSE IF OutOfHours(time) THEN "OutOfHours"
    ELSE "ok"

validate_booking(name, parsed, now, time, party_size) ==
    IF name = <<>> \/ Strip(name) = <<>> THEN "EmptyName"
    ELSE IF party_size <= 0 THEN "PartySizeNotPositive"
    ELSE IF party_size > MAX_PARTY_SIZE THEN "PartySizeTooLarge"
    ELSE IF ~parsed.ok THEN "UnparsableDate"
    ELSE IF parsed.date < now THEN "PastDate"
    ELSE IF ~IsHHMM(time) THEN "InvalidTimeFormat"
    ELSE IF OutOfHours(time) THEN "OutOfHours"
    ELSE "ok"

reservation_data_as_typed(nid, name, parsed_date, time, party_size) ==
    [id |-> nid, name |-> name, date |-> parsed_date, time |-> time, guests |-> party_size]

\* the row book_table inserts; the store assigns the id
reservation_data(nid, name, parsed_date, time, party_size) ==
    [id |-> nid, name |-> Strip(name), date |-> parsed_date, time |-> time,
     guests |-> party_size]

\* book_table(name, date, time, party_size) against `store`, whose next id is
\* nid, under configuration cfg on day now: what it returns and what it writes.
book_table(store, nid, cfg, now, name, date, time, party_size, fault) ==
    LET parsed == parse_natural_date(date, now)
        invalid == validate_booking(name, parsed, now, time, party_size)
        availability_check ==
            check_availability(store, cfg, parsed.date, time, party_size,
                               ~fault.check, ~fault.alt)
        checked == [NoIO EXCEPT !.selects = 1]
    IN  IF invalid # "ok" THEN Returned(invalid, NoCheck, NoIO)
        ELSE IF ~availability_check.available
             THEN Returned("Unavailable", availability_check, checked)
        ELSE IF fault.write
             THEN Returned("StoreError", availability_check, [checked EXCEPT !.inserts = 1])
        ELSE [out |-> "Booked", check |-> availability_check,
              io |-> [checked EXCEPT !.inserts = 1],
              row |-> reservation_data(nid, name, parsed.date, time, party_size),
              wrote |-> TRUE]

\* view_reservation(reservation_id)
view_reservation(store, reservation_id, fault) ==
    LET found == SelectId(store, reservation_id)
        read == [NoIO EXCEPT !.selects = 1]
    IN  IF reservation_id <= 0 THEN Returned("InvalidId", NoCheck, NoIO)
        ELSE IF fault.read THEN Returned("StoreError", NoCheck, read)
        ELSE IF found = <<>> THEN Returned("NotFound", NoCheck, read)
        ELSE [out |-> "Details", check |-> NoCheck, io |-> read,
              row |-> found[1], wrote |-> FALSE]

cancel_reservation_soft(store, reservation_id, fault) ==
    LET found == SelectId(store, reservation_id)
        read == [NoIO EXCEPT !.selects = 1]
    IN  IF reservation_id <= 0 THEN Returned("InvalidId", NoCheck, NoIO)
        ELSE IF found = <<>> THEN Returned("NotFound", NoCheck, read)
        ELSE [out |-> "Cancelled", check |-> NoCheck, io |-> [read EXCEPT !.updates = 1],
              row |-> found[1], wrote |-> FALSE]

\* cancel_reservation(reservation_id)
cancel_reservation(store, reservation_id, fault) ==
    LET found == SelectId(store, reservation_id)
        read == [NoIO EXCEPT !.selects = 1]
    IN  IF reservation_id <= 0 THEN Returned("InvalidId", NoCheck, NoIO)
        ELSE IF fault.read THEN Returned("StoreError", NoCheck, read)
        ELSE IF found = <<>> THEN Returned("NotFound", NoCheck, read)
        ELSE IF fault.write
             THEN Returned("StoreError", NoCheck, [read EXCEPT !.deletes = 1])
        ELSE [out |-> "Cancelled", check |-> NoCheck, io |-> [read EXCEPT !.deletes = 1],
              row |-> found[1], wrote |-> TRUE]

\* the fields of a row that an update replaces
Patched(row, update_data) ==
    [id |-> row.id,
     name |-> IF update_data.name = None THEN row.name ELSE update_data.name[1],
     date |-> IF update_data.date = None THEN row.date ELSE update_data.date[1],
     time |-> IF update_data.time = None THEN row.time ELSE update_data.time[1],
     guests |-> IF update_data.guests = None THEN row.guests ELSE update_data.guests[1]]

\* modify_reservation(reservation_id, name, date, time, party_size); the four
\* optional arguments are None or Some(value)
modify_reservation(store, now, reservation_id, name, date, time, party_size, fault) ==
    LET found == SelectId(store, reservation_id)
        read == [NoIO EXCEPT !.selects = 1]
        parsed == parse_natural_date(date[1], now)
        update_data ==
            [name |-> IF name = None THEN None ELSE Some(Strip(name[1])),
             \* the second date block stores the raw argument, an ISO date there
             date |-> IF date = None THEN None ELSE Some(date[1].n),
             time |-> time,
             guests |-> party_size]
    IN  IF reservation_id <= 0 THEN Returned("InvalidId", NoCheck, NoIO)
        ELSE IF fault.read THEN Returned("StoreError", NoCheck, read)
        ELSE IF found = <<>> THEN Returned("NotFound", NoCheck, read)
        ELSE IF name # None /\ Strip(name[1]) = <<>> THEN Returned("EmptyName", NoCheck, read)
        \* first date block: parse_natural_date, then name.strip() on the name argument
        ELSE IF date # None /\ ~parsed.ok THEN Returned("UnparsableDate", NoCheck, read)
        ELSE IF date # None /\ parsed.date < now THEN Returned("PastDate", NoCheck, read)
        ELSE IF date # None /\ name = None THEN Returned("UnexpectedError", NoCheck, read)
        \* second date block: strptime(date, "%Y-%m-%d") on the raw argument
        ELSE IF date # None /\ date[1].form # "iso"
             THEN Returned("InvalidDateFormat", NoCheck, read)
        ELSE IF date # None /\ date[1].n < now THEN Returned("PastDate", NoCheck, read)
        ELSE IF time # None /\ ~IsHHMM(time[1])
             THEN Returned("InvalidTimeFormat", NoCheck, read)
        ELSE IF time # None /\ OutOfHours(time[1]) THEN Returned("OutOfHours", NoCheck, read)
        ELSE IF party_size # None /\ party_size[1] <= 0
             THEN Returned("PartySizeNotPositive", NoCheck, read)
        ELSE IF party_size # None /\ party_size[1] > MAX_PARTY_SIZE
             THEN Returned("PartySizeTooLarge", NoCheck, read)
        ELSE IF name = None /\ date = None /\ time = None /\ party_size = None
             THEN Returned("NoChangesProvided", NoCheck, read)
        ELSE IF fault.write
             THEN Returned("StoreError", NoCheck, [read EXCEPT !.updates = 1])
        ELSE [out |-> "Modified", check |-> NoCheck, io |-> [read EXCEPT !.updates = 1],
              row |-> Patched(found[1], update_data), wrote |-> TRUE]

\* ------------------------------------------------------------ inputs
DateToday == [form |-> "today", n |-> 0]
DateTomorrow == [form |-> "tomorrow", n |-> 0]
DateGarbage == [form |-> "garbage", n |-> 0]
DateISO(d) == [form |-> "iso", n |-> d]

NameDan == <<"D", "a", "n">>
NameAnn == <<"A", "n", "n">>
NamePadded == <<" ", "D", "a", "n", " ">>
NameBlank == <<" ">>

PartySizes == {10, 20}
SlotTimes == {<<19, 0>>, <<20, 0>>}

\* the argument tuples of the book_table calls
ValidBookings ==
    [name : {NameDan}, date : {DateTomorrow}, time : SlotTimes, party : PartySizes]
    \cup {[name |-> NameDan, date |-> DateToday, time |-> <<19, 0>>, party |-> 10],
          [name |-> NamePadded, date |-> DateTomorrow, time |-> <<19, 0>>, party |-> 10]}
BaseBooking == [name |-> NameDan, date |-> DateTomorrow, time |-> <<19, 0>>, party |-> 10]
InvalidBookings(now) ==
    {[BaseBooking EXCEPT !.name = n] : n \in {<<>>, NameBlank}}
    \cup {[BaseBooking EXCEPT !.party = p] : p \in {0, 21}}
    \cup {[BaseBooking EXCEPT !.date = d] : d \in {DateGarbage, DateISO(now - 1)}}
    \cup {[BaseBooking EXCEPT !.time = t] : t \in {<<19>>, <<19, 0, 0>>, <<9, 0>>, <<23, 0>>}}
    \cup {[BaseBooking EXCEPT !.name = NameBlank, !.party = 21]}
BookInputs(now) == ValidBookings \cup InvalidBookings(now)

\* the argument tuples of the modify_reservation calls
NoChanges == [name |-> None, date |-> None, time |-> None, party |-> None]
NameChange == [NoChanges EXCEPT !.name = Some(NameAnn)]
ValidChanges(now) ==
    { NameChange,
      [NoChanges EXCEPT !.time = Some(<<20, 0>>)],
      [NoChanges EXCEPT !.party = Some(20)],
      [NoChanges EXCEPT !.date = Some(DateISO(now))],
      [NoChanges EXCEPT !.date = Some(DateTomorrow)],
      [NoChanges EXCEPT !.name = Some(NameAnn), !.date = Some(DateISO(now))],
      [NoChanges EXCEPT !.name = Some(NameAnn), !.date = Some(DateTomorrow)] }
InvalidChanges(now) ==
    { NoChanges,
      [NoChanges EXCEPT !.name = Some(NameBlank)],
      [NoChanges EXCEPT !.name = Some(NameAnn), !.date = Some(DateISO(now - 1))],
      [NoChanges EXCEPT !.date = Some(DateGarbage)],
      [NoChanges EXCEPT !.time = Some(<<23, 0>>)],
      [NoChanges EXCEPT !.time = Some(<<19>>)],
      [NoChanges EXCEPT !.party = Some(0)],
      [NoChanges EXCEPT !.party = Some(21)] }
ModifyInputs(now) == ValidChanges(now) \cup InvalidChanges(now)

\* os.environ: the defaults, and a small restaurant
EnvConfigs ==
    { [MAX_TABLES |-> DEFAULT_MAX_TABLES,
       MAX_CAPACITY_PER_TIME_SLOT |-> DEFAULT_MAX_CAPACITY_PER_TIME_SLOT],
      [MAX_TABLES |-> 2, MAX_CAPACITY_PER_TIME_SLOT |-> 11] }

\* what the table holds when the process starts: nothing, or a row an earlier
\* client wrote with the HH:MM:SS time representation
SeedStores(now) ==
    { {},
      {[id |-> 1, name |-> NameAnn, date |-> now + 1, time |-> <<19, 0, 0>>, guests |-> 20]} }

NoArgs == [name |-> <<>>, date |-> DateGarbage, time |-> <<>>, party |-> 0]
Call(op, id, args, fault, res) ==
    [op |-> op, id |-> id, args |-> args, fault |-> fault, out |-> res.out,
     check |-> res.check, io |-> res.io, row |-> res.row]

\* ------------------------------------------------------------ actions
Callers == {1, 2}
Threads == {"t1", "t2"}

\* a caller that is not inside book_table
Idle == [pc |-> "idle", args |-> NoArgs, parsed_date |-> 0, check |-> NoCheck, seen |-> <<>>]
\* a run_agent slot with no call in it
NoCall ==
    [pc |-> "idle", thread_id |-> "", input_text |-> <<>>, shared |-> FALSE,
     state |-> EmptyDict]
NothingSent == [thread_id |-> "", messages |-> <<>>, ok |-> TRUE]

NoCallers == inflight = [c \in Callers |-> Idle]
NoAgent ==
    /\ booking_state = [t \in {} |-> EmptyDict]
    /\ seen_threads = {}
    /\ running = [c \in Callers |-> NoCall]
    /\ sent = NothingSent
    /\ extracted = [t \in Threads |-> {}]
    /\ started = 0
    /\ invocations = [t \in {"t1", "t2"} |-> <<>>]

Init ==
    /\ env \in EnvConfigs
    /\ today = FirstDay
    /\ bookings \in SeedStores(today)
    /\ nextId = Cardinality(bookings) + 1
    /\ last = Call("start", 0, NoArgs, NoFault, Returned("none", NoCheck, NoIO))
    /\ cancelled = {}
    /\ NoCallers
    /\ NoAgent

\* one whole book_table call
BookTable(a, fault) ==
    LET res == book_table(bookings, nextId, env, today, a.name, a.date, a.time, a.party, fault)
    IN  /\ res.wrote => nextId <= MaxId
        /\ bookings' = IF res.wrote THEN bookings \cup {res.row} ELSE bookings
        /\ nextId' = IF res.wrote THEN nextId + 1 ELSE nextId
        /\ last' = Call("book_table", 0, a, fault, res)
        /\ UNCHANGED <<env, today, cancelled>>
        /\ UNCHANGED <<concVars, agentVars>>

\* one whole view_reservation call
ViewReservation(id, fault) ==
    LET res == view_reservation(bookings, id, fault)
    IN  /\ last' = Call("view_reservation", id, NoArgs, fault, res)
        /\ UNCHANGED <<env, today, bookings, nextId, cancelled>>
        /\ UNCHANGED <<concVars, agentVars>>

\* one whole cancel_reservation call
CancelReservation(id, fault) ==
    LET res == cancel_reservation(bookings, id, fault)
    IN  /\ bookings' = IF res.wrote THEN bookings \ {res.row} ELSE bookings
        /\ last' = Call("cancel_reservation", id, NoArgs, fault, res)
        /\ cancelled' = IF res.wrote THEN cancelled \cup {id} ELSE cancelled
        /\ UNCHANGED <<env, today, nextId>>
        /\ UNCHANGED <<concVars, agentVars>>

\* one whole modify_reservation call
ModifyReservation(id, a, fault) ==
    LET res == modify_reservation(bookings, today, id, a.name, a.date, a.time, a.party, fault)
    IN  /\ bookings' = IF res.wrote
                       THEN {r \in bookings : r.id # id} \cup {res.row}
                       ELSE bookings
        /\ last' = Call("modify_reservation", id, a, fault, res)
        /\ UNCHANGED <<env, today, nextId, cancelled>>
        /\ UNCHANGED <<concVars, agentVars>>

\* a direct call of check_availability(date, time, party_size)
CheckAvailability(date, time, party_size, fault) ==
    LET check == check_availability(bookings, env, date, time, party_size,
                                    ~fault.check, ~fault.alt)
        res == Returned(IF check.available THEN "Available" ELSE "Unavailable",
                        check, [NoIO EXCEPT !.selects = 1])
    IN  /\ last' = Call("check_availability", 0,
                        [name |-> <<>>, date |-> DateISO(date), time |-> time,
                         party |-> party_size], fault, res)
        /\ UNCHANGED <<env, today, bookings, nextId, cancelled>>
        /\ UNCHANGED <<concVars, agentVars>>

\* one whole check_table_availability call
CheckTableAvailability(date, time, party_size, fault) ==
    LET res == check_table_availability(bookings, env, today, date, time, party_size, fault)
    IN  /\ last' = Call("check_table_availability", 0,
                        [name |-> <<>>, date |-> date, time |-> time, party |-> party_size],
                        fault, res)
        /\ UNCHANGED <<env, today, bookings, nextId, cancelled>>
        /\ UNCHANGED <<concVars, agentVars>>

Ids == 0..MaxId

Next ==
    \/ \E a \in ValidBookings, fault \in Faults : BookTable(a, fault)
    \/ \E a \in InvalidBookings(today) : BookTable(a, NoFault)
    \/ \E id \in Ids : ViewReservation(id, NoFault)
    \/ ViewReservation(1, [NoFault EXCEPT !.read = TRUE])
    \/ \E id \in Ids : CancelReservation(id, NoFault)
    \/ \E fault \in IdFaults : CancelReservation(1, fault)
    \/ \E a \in ModifyInputs(today) : ModifyReservation(1, a, NoFault)
    \/ \E fault \in IdFaults : ModifyReservation(1, NameChange, fault)
    \/ \E id \in {0, MaxId + 1} : ModifyReservation(id, NameChange, NoFault)

Spec == Init /\ [][Next]_vars

\* the argument tuples of the check_table_availability calls among the calls
\* of the other tools
ToolChecks(now) ==
    {[date |-> DateTomorrow, time |-> t, party |-> 10, fault |-> NoFault] :
        t \in {<<>>, <<19, 0>>, <<23, 0>>, <<19, 0, 0>>}}
    \cup {[date |-> d, time |-> <<19, 0>>, party |-> 10, fault |-> NoFault] :
            d \in {DateGarbage, DateISO(now - 1)}}
    \cup {[date |-> DateTomorrow, time |-> t, party |-> 10,
           fault |-> [NoFault EXCEPT !.check = TRUE]] : t \in {<<>>, <<19, 0>>}}
    \cup {[date |-> DateTomorrow, time |-> <<19, 0>>, party |-> 0, fault |-> NoFault],
          [date |-> DateTomorrow, time |-> <<19, 0>>, party |-> 20,
           fault |-> [NoFault EXCEPT !.alt = TRUE]]}

\* the calls of the five tools, in any order
NextTools ==
    \/ Next
    \/ \E c \in ToolChecks(today) : CheckTableAvailability(c.date, c.time, c.party, c.fault)

SpecTools == Init /\ [][NextTools]_vars

\* Sequential book_table and cancel_reservation calls against a store that
\* starts empty and answers every call.
InitSeq ==
    /\ Init
    /\ bookings = {}

NextSeq ==
    \/ \E a \in ValidBookings : BookTable(a, NoFault)
    \/ \E a \in InvalidBookings(today) : BookTable(a, NoFault)
    \/ \E id \in 1..MaxId : CancelReservation(id, NoFault)

SpecSeq == InitSeq /\ [][NextSeq]_vars

\* Sequential book_table and modify_reservation calls over two days.
\* datetime.now().date() moves on to the next day
NextDay ==
    /\ today < FirstDay + MaxDays
    /\ today' = today + 1
    /\ UNCHANGED <<env, bookings, nextId, last, cancelled>>
    /\ UNCHANGED <<concVars, agentVars>>

DayBookings ==
    {[BaseBooking EXCEPT !.date = d] : d \in {DateToday, DateTomorrow}}
    \cup {[BaseBooking EXCEPT !.party = 21],
          [BaseBooking EXCEPT !.time = <<23, 0>>],
          [BaseBooking EXCEPT !.date = DateISO(today - 1)]}

NextDays ==
    \/ \E a \in DayBookings : BookTable(a, NoFault)
    \/ \E id \in 1..MaxId, a \in ModifyInputs(today) : ModifyReservation(id, a, NoFault)
    \/ NextDay

SpecDays == InitSeq /\ [][NextDays]_vars

\* ---------------------------------------------- interleaved book_table calls
\* book_table up to the availability check (the store answers): an invalid or
\* refused call returns; an admitted one is left before its insert
BookCheck(c, a) ==
    LET parsed == parse_natural_date(a.date, today)
        invalid == validate_booking(a.name, parsed, today, a.time, a.party)
        availability_check ==
            check_availability(bookings, env, parsed.date, a.time, a.party, TRUE, TRUE)
        checked == [NoIO EXCEPT !.selects = 1]
    IN  /\ inflight[c].pc = "idle"
        /\ IF invalid # "ok"
           THEN /\ last' = Call("book_table", 0, a, NoFault, Returned(invalid, NoCheck, NoIO))
                /\ UNCHANGED inflight
           ELSE IF ~availability_check.available
           THEN /\ last' = Call("book_table", 0, a, NoFault,
                                Returned("Unavailable", availability_check, checked))
                /\ UNCHANGED inflight
           ELSE /\ inflight' = [inflight EXCEPT ![c] =
                                   [pc |-> "checked", args |-> a, parsed_date |-> parsed.date,
                                    check |-> availability_check,
                                    seen |-> unique_reservations(bookings, parsed.date, a.time)]]
                /\ UNCHANGED last
        /\ UNCHANGED <<env, today, bookings, nextId, cancelled, agentVars>>

\* the insert of an admitted book_table call, and its return
BookInsert(c) ==
    LET a == inflight[c].args
        row == reservation_data(nextId, a.name, inflight[c].parsed_date, a.time, a.party)
    IN  /\ inflight[c].pc = "checked"
        /\ nextId <= MaxId
        /\ bookings' = bookings \cup {row}
        /\ nextId' = nextId + 1
        /\ last' = Call("book_table", 0, a, NoFault,
                        [out |-> "Booked", check |-> inflight[c].check,
                         io |-> [NoIO EXCEPT !.selects = 1, !.inserts = 1],
                         row |-> row, wrote |-> TRUE])
        /\ inflight' = [inflight EXCEPT ![c] = Idle]
        /\ UNCHANGED <<env, today, cancelled, agentVars>>

\* parties that fit every configured capacity
ConcBookings ==
    [name : {NameDan}, date : {DateTomorrow}, time : SlotTimes, party : {1, 10}]
    \cup {[BaseBooking EXCEPT !.party = 21]}

InitConc ==
    /\ Init
    /\ bookings = {}

NextConc ==
    \/ \E c \in Callers, a \in ConcBookings : BookCheck(c, a)
    \/ \E c \in Callers : BookInsert(c)

SpecConc == InitConc /\ [][NextConc]_vars

\* ---------------------------------------------------------------- run_agent
stored_state_everywhere(accumulators, thread_id, state) ==
    [x \in DOMAIN accumulators \cup {"t1", "t2"} |-> state]

\* booking_state[thread_id] = state
stored_state(accumulators, thread_id, state) ==
    [x \in DOMAIN accumulators \cup {thread_id} |->
        IF x = thread_id THEN state ELSE accumulators[x]]

turn_messages_always_prompt(thread_id, seen, state, input_text) ==
    <<[role |-> "system", kind |-> "system_prompt"]>>
    \o (IF DOMAIN state # {} THEN <<summarize_booking_info(state)>> ELSE <<>>)
    \o <<[role |-> "user", kind |-> "text", text |-> input_text]>>

turn_messages_no_summary(thread_id, seen, state, input_text) ==
    (IF thread_id \notin seen
     THEN <<[role |-> "system", kind |-> "system_prompt"]>> ELSE <<>>)
    \o <<[role |-> "user", kind |-> "text", text |-> input_text]>>

\* the messages of a turn: the system prompt for a thread not in seen_threads,
\* the summary of a non-empty state, the user's text
turn_messages(thread_id, seen, state, input_text) ==
    (IF thread_id \notin seen
     THEN <<[role |-> "system", kind |-> "system_prompt"]>> ELSE <<>>)
    \o (IF DOMAIN state # {} THEN <<summarize_booking_info(state)>> ELSE <<>>)
    \o <<[role |-> "user", kind |-> "text", text |-> input_text]>>

\* the dict a call's local `state` refers to: the thread's accumulator itself,
\* or a dict of its own
StateOf(c) ==
    IF running[c].shared THEN booking_state[running[c].thread_id] ELSE running[c].state

\* state = booking_state.get(thread_id, {})
AgentRead(c, thread_id, input_text) ==
    /\ running[c].pc = "idle"
    /\ started < MaxCalls
    /\ started' = started + 1
    /\ running' = [running EXCEPT ![c] =
                      [pc |-> "read", thread_id |-> thread_id, input_text |-> input_text,
                       shared |-> thread_id \in DOMAIN booking_state, state |-> EmptyDict]]
    /\ UNCHANGED <<toolVars, concVars, booking_state, seen_threads, sent, extracted, invocations>>

\* updates = extract_booking_info(input_text); if updates: state.update(...);
\* booking_state[thread_id] = state
AgentMerge(c) ==
    LET t == running[c].thread_id
        updates == extract_booking_info(running[c].input_text)
        state == merged_slots(StateOf(c), updates)
    IN  /\ running[c].pc = "read"
        /\ IF DOMAIN updates # {}
           THEN /\ booking_state' = stored_state(booking_state, t, state)
                \* a call that holds the dict this assignment replaces keeps it
                /\ running' =
                      [o \in Callers |->
                          IF o = c THEN [running[c] EXCEPT !.pc = "merged", !.shared = TRUE,
                                                           !.state = EmptyDict]
                          ELSE IF /\ ~running[c].shared
                                  /\ running[o].shared
                                  /\ running[o].thread_id = t
                               THEN [running[o] EXCEPT !.shared = FALSE,
                                                       !.state = booking_state[t]]
                          ELSE running[o]]
                /\ extracted' = [extracted EXCEPT ![t] = @ \cup DOMAIN updates]
           ELSE /\ running' = [running EXCEPT ![c].pc = "merged"]
                /\ UNCHANGED <<booking_state, extracted>>
        /\ UNCHANGED <<toolVars, concVars, seen_threads, sent, started, invocations>>

\* the messages of the turn, agent.invoke (which succeeds or raises), the return
AgentInvoke(c, ok) ==
    LET t == running[c].thread_id
        state == StateOf(c)
        messages == turn_messages(t, seen_threads, state, running[c].input_text)
    IN  /\ running[c].pc = "merged"
        /\ seen_threads' = seen_threads \cup {t}
        /\ invocations' = [invocations EXCEPT ![t] =
                              Append(@, [prompt |-> t \notin seen_threads, ok |-> ok])]
        /\ sent' = [thread_id |-> t, messages |-> messages, ok |-> ok]
        /\ running' = [running EXCEPT ![c] = NoCall]
        /\ UNCHANGED <<toolVars, concVars, booking_state, extracted, started>>

Utterances ==
    { <<"my", "name", "is", "Dan">>,
      <<"party", "of", "4">>,
      <<"tomorrow">>,
      <<"thanks", "a", "lot">> }

InitAgent ==
    /\ env = [MAX_TABLES |-> DEFAULT_MAX_TABLES,
              MAX_CAPACITY_PER_TIME_SLOT |-> DEFAULT_MAX_CAPACITY_PER_TIME_SLOT]
    /\ today = FirstDay
    /\ bookings = {}
    /\ nextId = 1
    /\ last = Call("start", 0, NoArgs, NoFault, Returned("none", NoCheck, NoIO))
    /\ cancelled = {}
    /\ NoCallers
    /\ NoAgent

NextAgent ==
    \/ \E c \in Callers, t \in Threads, text \in Utterances : AgentRead(c, t, text)
    \/ \E c \in Callers : AgentMerge(c)
    \/ \E c \in Callers, ok \in BOOLEAN : AgentInvoke(c, ok)

SpecAgent == InitAgent /\ [][NextAgent]_vars

\* run_agent calls one after the other: a call returns before the next starts
TurnUtterances ==
    Utterances \cup
    { <<"my", "name", "is", "Ann">>,
      <<"for", "4", "people", "at", "7pm", "tomorrow">>,
      <<"5551234567">> }

NextTurns ==
    \/ \E t \in Threads, text \in TurnUtterances : AgentRead(1, t, text)
    \/ AgentMerge(1)
    \/ \E ok \in BOOLEAN : AgentInvoke(1, ok)

SpecTurns == InitAgent /\ [][NextTurns]_vars

\* parse_natural_date applied on every day of two weeks
DateInputs(now) ==
    {[form |-> f, n |-> w] : f \in {"weekday", "next weekday"}, w \in 0..6}
    \cup {[form |-> f, n |-> 0] : f \in {"today", "tomorrow", "day after tomorrow", "next week"}}
    \cup {DateGarbage, DateISO(now), DateISO(now - 1)}
    \cup {[form |-> f, n |-> d, year |-> y] :
            f \in {"month day", "mm/dd"}, d \in {FirstDay - 5, FirstDay + MaxDayOffset + 1},
            y \in {None, Some(YearOf(now)), Some(YearOf(now) - 1)}}

InitDates ==
    /\ today \in FirstDay..(FirstDay + MaxDayOffset)
    /\ env = [MAX_TABLES |-> DEFAULT_MAX_TABLES,
              MAX_CAPACITY_PER_TIME_SLOT |-> DEFAULT_MAX_CAPACITY_PER_TIME_SLOT]
    /\ bookings = {}
    /\ nextId = 1
    /\ last = Call("start", 0, NoArgs, NoFault, Returned("none", NoCheck, NoIO))
    /\ cancelled = {}
    /\ NoCallers
    /\ NoAgent

\* a call of parse_natural_date(date_input): the date it returns, or ValueError
ParseNaturalDate(date_input) ==
    LET parsed == parse_natural_date(date_input, today)
    IN  /\ last' = [op |-> "parse_natural_date", id |-> 0,
                    args |-> [NoArgs EXCEPT !.date = date_input], fault |-> NoFault,
                    out |-> IF parsed.ok THEN "Parsed" ELSE "ValueError",
                    check |-> NoCheck, io |-> NoIO,
                    row |-> [NoRow EXCEPT !.date = parsed.date]]
        /\ UNCHANGED <<env, today, bookings, nextId, cancelled>>
        /\ UNCHANGED <<concVars, agentVars>>

NextDates == \E date_input \in DateInputs(today) : ParseNaturalDate(date_input)

SpecDates == InitDates /\ [][NextDates]_vars

\* extract_booking_info applied to every text of up to MaxWords of
\* ExtractWords, and to the longer utterances of ExampleUtterances
ExtractWords == {"Dan", "for", "5", "people", "next", "friday", "tomorrow", ",", "at", "7pm"}

ExampleUtterances ==
    { <<"my", "name", "is", "Dan", ",", "party", "of", "4", "tomorrow", "at", "7pm">>,
      <<"my", "name", "is", "dan", "ann">>,
      <<"Dan", "for", "5", "people">>,
      <<"for", "4", "people", "at", "7pm", "tomorrow">>,
      <<"dan">>, <<"2025-10-21">>, <<"10/21">>, <<"5551234567">> }

ExtractInputs ==
    ExampleUtterances \cup UNION {[1..n -> ExtractWords] : n \in 0..MaxWords}

\* a call of extract_booking_info(text): the mapping it returns; a behaviour
\* holds one call
ExtractBookingInfo(text) ==
    /\ last.op = "start"
    /\ last' = [op |-> "extract_booking_info", id |-> 0, args |-> NoArgs, fault |-> NoFault,
                out |-> "Returned", check |-> NoCheck, io |-> NoIO, row |-> NoRow,
                text |-> text, info |-> extract_booking_info(text)]
    /\ UNCHANGED <<env, today, bookings, nextId, cancelled>>
    /\ UNCHANGED <<concVars, agentVars>>

NextExtract == \E text \in ExtractInputs : ExtractBookingInfo(text)

SpecExtract == InitAgent /\ [][NextExtract]_vars

\* check_availability applied to the stores of up to MaxRows rows.
CheckRowTypes ==
    << [date |-> 10, time |-> <<19, 0>>, guests |-> 20],
       [date |-> 11, time |-> <<19, 0>>, guests |-> 1],
       [date |-> 11, time |-> <<19, 0>>, guests |-> 10],
       [date |-> 11, time |-> <<19, 0>>, guests |-> 20],
       [date |-> 11, time |-> <<19, 0, 0>>, guests |-> 1],
       [date |-> 11, time |-> <<19, 0, 0>>, guests |-> 10],
       [date |-> 11, time |-> <<19, 0, 0>>, guests |-> 20],
       [date |-> 11, time |-> <<20, 0>>, guests |-> 1],
       [date |-> 11, time |-> <<20, 0>>, guests |-> 10],
       [date |-> 11, time |-> <<20, 0>>, guests |-> 20],
       [date |-> 11, time |-> <<22, 0>>, guests |-> 1],
       [date |-> 11, time |-> <<22, 0>>, guests |-> 10],
       [date |-> 11, time |-> <<22, 0>>, guests |-> 20] >>

CheckRow(i, t) ==
    [id |-> i, name |-> NameDan, date |-> t.date, time |-> t.time, guests |-> t.guests]

\* one store per multiset of row types (ids in the order of the types)
CheckStores ==
    { {CheckRow(i, CheckRowTypes[f[i]]) : i \in {j \in 1..MaxRows : f[j] # 0}} :
        f \in {g \in [1..MaxRows -> 0..Len(CheckRowTypes)] :
                 \A i \in 1..(MaxRows - 1) : g[i] <= g[i + 1]} }

InitCheck ==
    /\ env \in EnvConfigs
    /\ today = FirstDay
    /\ bookings \in CheckStores
    /\ nextId = MaxRows + 1
    /\ last = Call("start", 0, NoArgs, NoFault, Returned("none", NoCheck, NoIO))
    /\ cancelled = {}
    /\ NoCallers
    /\ NoAgent

CheckFaults == {NoFault, [NoFault EXCEPT !.check = TRUE], [NoFault EXCEPT !.alt = TRUE]}

NextCheck ==
    /\ last.op = "start"
    /\ \E date \in {today, today + 1}, time \in {<<19, 0>>, <<22, 0>>}, party_size \in {1, 10, 20},
         fault \in CheckFaults :
          CheckAvailability(date, time, party_size, fault)

SpecCheck == InitCheck /\ [][NextCheck]_vars

\* check_table_availability with a time, applied to the same stores
NextToolCheck ==
    /\ last.op = "start"
    /\ \E date \in {DateToday, DateTomorrow}, time \in {<<19, 0>>, <<22, 0>>},
         party_size \in {0, 1, 10, 20}, fault \in CheckFaults :
          CheckTableAvailability(date, time, party_size, fault)

SpecToolCheck == InitCheck /\ [][NextToolCheck]_vars

\* ------------------------------------------------------------ properties
\* the hour and minute of a stored time, whichever its representation
ClockOf(time) == SubSeq(time, 1, 2)

\* the reservations of the (date, time) slot, each row once
SlotRows(store, date, time) ==
    {r \in store : r.date = date /\ r.time \in {time, time \o <<0>>}}

RECURSIVE Guests(_)
Guests(rows) ==
    IF rows = {} THEN 0
    ELSE LET r == CHOOSE x \in rows : TRUE IN r.guests + Guests(rows \ {r})

\* every slot holds at most the configured guests and reservations
WithinLimits(store, cfg) ==
    \A r \in store :
        LET rows == SlotRows(store, r.date, ClockOf(r.time))
        IN  /\ Guests(rows) <= cfg.MAX_CAPACITY_PER_TIME_SLOT
            /\ Cardinality(rows) <= cfg.MAX_TABLES

\* the arguments of a book_table call that its validation refuses
ArgsInvalid(a, now) ==
    \/ Strip(a.name) = <<>>
    \/ a.party <= 0
    \/ a.party > 20
    \/ ~parse_natural_date(a.date, now).ok
    \/ parse_natural_date(a.date, now).date < now
    \/ Len(a.time) # 2
    \/ a.time[1] < 10
    \/ a.time[1] >= 23
    \/ a.time[2] \notin 0..59

ValidationErrors ==
    {"EmptyName", "PartySizeNotPositive", "PartySizeTooLarge", "UnparsableDate",
     "PastDate", "InvalidTimeFormat", "OutOfHours"}

\* C1: in sequential book_table / cancel_reservation calls against a healthy
\* store that starts empty, every (date, time) slot holds at most
\* MAX_CAPACITY_PER_TIME_SLOT guests and at most MAX_TABLES reservations.
C1_SlotsWithinLimits == WithinLimits(bookings, env)

\* C2: a modify_reservation that changes date, time or party size is written
\* only if check_availability admits the new party to the new slot, given the
\* other reservations.
C2_ModifyObeysCapacity ==
    [][(/\ last'.op = "modify_reservation"
        /\ last'.out = "Modified"
        /\ last' # last
        /\ \/ last'.args.date # None
           \/ last'.args.time # None
           \/ last'.args.party # None)
       => check_availability({r \in bookings : r.id # last'.id}, env, last'.row.date,
                             ClockOf(last'.row.time), last'.row.guests, TRUE, TRUE).available]_vars

\* C3: an insert of book_table takes a slot over the configured limits only
\* when the slot changed between the call's availability check and its insert;
\* two interleaved calls for one slot do reach such a state.
C3_OverbookedOnlyByRace ==
    [][\A c \in Callers :
        (/\ inflight[c].pc = "checked"
         /\ inflight'[c].pc = "idle"
         /\ WithinLimits(bookings, env)
         /\ ~WithinLimits(bookings', env))
        => inflight[c].seen
             # unique_reservations(bookings, inflight[c].parsed_date,
                                   inflight[c].args.time)]_vars

\* both calls passed the check and inserted, and the slot exceeds a limit
C3_Witness ==
    /\ last.op = "book_table"
    /\ last.out = "Booked"
    /\ last.check.available
    /\ Cardinality(bookings) = 2
    /\ \A r \in bookings : r.date = last.row.date /\ r.time = last.row.time
    /\ \/ Guests(bookings) > env.MAX_CAPACITY_PER_TIME_SLOT
       \/ Cardinality(bookings) > env.MAX_TABLES

\* C4: a merge of run_agent drops a slot from the thread's accumulator only
\* when the call read booking_state before the thread had an entry and merges
\* after another call on the thread wrote one; two interleaved calls on one
\* thread do reach a state where an extracted slot is gone.
C4_LostOnlyByRace ==
    [][\A c \in Callers :
        (/\ running[c].pc = "read"
         /\ running'[c].pc = "merged"
         /\ running[c].thread_id \in DOMAIN booking_state
         /\ \E k \in DOMAIN booking_state[running[c].thread_id] :
               k \notin DOMAIN booking_state'[running[c].thread_id])
        => ~running[c].shared]_vars

\* both calls have returned and a slot one of them extracted is absent
C4_Witness ==
    /\ \A c \in Callers : running[c].pc = "idle"
    /\ started = 2
    /\ \E t \in DOMAIN booking_state :
          \E k \in extracted[t] : k \notin DOMAIN booking_state[t]

\* the slot a check_availability call in `last` asked for
AskedRows == SlotRows(bookings, last.args.date.n, last.args.time)

\* C5: with a healthy store check_availability answers available=false exactly
\* when booked guests + party_size > MAX_CAPACITY_PER_TIME_SLOT or the number
\* of reservations >= MAX_TABLES, both over the slot's rows counted once.
C5_RejectsIff ==
    (last.op = "check_availability" /\ ~last.fault.check)
    => (~last.check.available
        <=> \/ Guests(AskedRows) + last.args.party > env.MAX_CAPACITY_PER_TIME_SLOT
            \/ Cardinality(AskedRows) >= env.MAX_TABLES)

Hours(suggestions) == {suggestions[i].slot[1] : i \in 1..Len(suggestions)}

\* C6: on rejection (all store reads succeeding, the party no larger than the
\* configured capacity) there are at most 3 suggestions, each a distinct whole
\* hour in 10:00..22:00 other than the requested slot, and each within the
\* configured limits for the party.
C6_SuggestionsWithinConfiguredLimits ==
    (/\ last.op = "check_availability"
     /\ last.fault = NoFault
     /\ ~last.check.available
     /\ last.args.party <= env.MAX_CAPACITY_PER_TIME_SLOT)
    => LET suggestions == last.check.suggestions
       IN  /\ Len(suggestions) <= 3
           /\ \A i \in 1..Len(suggestions) :
                /\ Len(suggestions[i].slot) = 2
                /\ suggestions[i].slot[1] \in 10..22
                /\ suggestions[i].slot[2] = 0
                /\ suggestions[i].slot # last.args.time
                /\ \A j \in 1..Len(suggestions) :
                      suggestions[i].slot = suggestions[j].slot => i = j
                /\ LET rows == SlotRows(bookings, last.args.date.n, suggestions[i].slot)
                   IN  /\ Guests(rows) + last.args.party <= env.MAX_CAPACITY_PER_TIME_SLOT
                       /\ Cardinality(rows) < env.MAX_TABLES

Distance(hour) ==
    IF hour >= last.args.time[1] THEN hour - last.args.time[1] ELSE last.args.time[1] - hour

\* the hourly slots of the asked date that get_alternative_times' test admits
AdmissibleHours ==
    {h \in 10..22 :
        /\ <<h, 0>> # last.args.time
        /\ LET rows == SlotRows(bookings, last.args.date.n, <<h, 0>>)
           IN  Guests(rows) + last.args.party <= 50 /\ Cardinality(rows) < 10}

\* C7: the alternatives of a rejection (their reads succeeding) are the up to
\* three admissible hourly slots nearest to the requested hour, in ascending
\* order of distance; no admissible slot left out is nearer than one returned.
C7_NearestThree ==
    (last.op = "check_availability" /\ ~last.check.available /\ ~last.fault.alt)
    => LET suggestions == last.check.suggestions
       IN  /\ Len(suggestions) = (IF Cardinality(AdmissibleHours) < 3
                                  THEN Cardinality(AdmissibleHours) ELSE 3)
           /\ Hours(suggestions) \subseteq AdmissibleHours
           /\ Cardinality(Hours(suggestions)) = Len(suggestions)
           /\ \A i, j \in 1..Len(suggestions) :
                i < j => Distance(suggestions[i].slot[1]) <= Distance(suggestions[j].slot[1])
           /\ \A h \in AdmissibleHours \ Hours(suggestions) :
                \A i \in 1..Len(suggestions) :
                    Distance(h) >= Distance(suggestions[i].slot[1])

\* a rejection whose nearest hour is full, so that a farther one is suggested
C7_Witness ==
    /\ last.op = "check_availability"
    /\ ~last.check.available
    /\ ~last.fault.alt
    /\ Len(last.check.suggestions) = 3
    /\ \E h \in 10..22 :
        /\ <<h, 0>> # last.args.time
        /\ h \notin AdmissibleHours
        /\ Distance(h) < Distance(last.check.suggestions[3].slot[1])

\* C8: when the store raises while check_availability reads the requested
\* slot, the check answers available=true with no suggestions and book_table
\* goes on to the insert.
C8_FailOpen ==
    (last.op = "book_table" /\ last.fault.check /\ ~ArgsInvalid(last.args, today))
    => /\ last.check.available
       /\ last.check.suggestions = <<>>
       /\ last.io.inserts = 1
       /\ last.out \in {"Booked", "StoreError"}

\* a booking let through unverified into a slot that was already full
C8_Witness ==
    /\ last.op = "book_table"
    /\ last.fault.check
    /\ last.out = "Booked"
    /\ Guests(SlotRows(bookings, last.row.date, last.row.time))
         > env.MAX_CAPACITY_PER_TIME_SLOT
    /\ last.row.guests <= env.MAX_CAPACITY_PER_TIME_SLOT

\* C9: a book_table call with an invalid argument returns an error without any
\* store call, and the store is unchanged.
C9_InvalidArgsNoStoreCall ==
    [][(last'.op = "book_table" /\ last' # last /\ ArgsInvalid(last'.args, today))
       => /\ last'.out \in ValidationErrors
          /\ last'.io = NoIO
          /\ bookings' = bookings
          /\ nextId' = nextId]_vars

\* a party of 21 refused while the store holds reservations
C9_Witness ==
    /\ last.op = "book_table"
    /\ last.args.party = 21
    /\ last.out = "PartySizeTooLarge"
    /\ bookings # {}

\* a successful book_table call directly followed by a view of the id it returned
BookedThenViewed ==
    /\ last.op = "book_table"
    /\ last.out = "Booked"
    /\ last'.op = "view_reservation"
    /\ last'.id = last.row.id
    /\ ~last'.fault.read

C11_CancelledStaysGone ==
    [][/\ (last'.op = "cancel_reservation" /\ last'.out = "Cancelled")
          => /\ \A r \in bookings' : r.id # last'.id
             /\ \A r \in bookings \ bookings' :
                   LET rows == SlotRows(bookings, r.date, ClockOf(r.time))
                       left == SlotRows(bookings', r.date, ClockOf(r.time))
                   IN  /\ Guests(left) = Guests(rows) - r.guests
                       /\ Cardinality(left) = Cardinality(rows) - 1
       /\ (/\ last'.op \in {"view_reservation", "modify_reservation", "cancel_reservation"}
           /\ last' # last
           /\ last'.fault = NoFault
           /\ last'.id \in cancelled)
          => /\ last'.out = "NotFound"
             /\ bookings' = bookings]_vars

\* a modification of a cancelled reservation was refused as not found
C11_Witness ==
    /\ last.op = "modify_reservation"
    /\ last.id \in cancelled
    /\ last.out = "NotFound"
    /\ bookings # {}

\* C12 as stated: every row that book_table or modify_reservation writes has a
\* party size in 1..20, an hour in [10,23) and a date that is not in the past
\* at the moment of the write.
C12_RowsValidWhenWritten ==
    [][\A r \in bookings' \ bookings :
          /\ r.guests \in 1..MAX_PARTY_SIZE
          /\ ClockOf(r.time)[1] \in OPEN_HOUR..(CLOSE_HOUR - 1)
          /\ r.date >= today]_vars

\* C12: every row that book_table or modify_reservation writes has a party size
\* in 1..20 and an hour in [10,23), and its date is not in the past at the
\* moment book_table creates it or modify_reservation is given a date for it.
C12_RowsValid ==
    [][\A r \in bookings' \ bookings :
          /\ r.guests \in 1..MAX_PARTY_SIZE
          /\ ClockOf(r.time)[1] \in OPEN_HOUR..(CLOSE_HOUR - 1)
          /\ (last'.op = "book_table" \/ last'.args.date # None) => r.date >= today]_vars

\* a row that modify_reservation has just written, at the largest party size,
\* on a later day than the one it was booked on
C12_Witness ==
    /\ last.op = "modify_reservation"
    /\ last.out = "Modified"
    /\ last.args.party = Some(MAX_PARTY_SIZE)
    /\ last.row \in bookings
    /\ today = FirstDay + 1

\* the optional arguments of a modify_reservation call: at least one is
\* supplied and every supplied one passes book_table's validation
ChangeValid(a, now) ==
    /\ a # NoChanges
    /\ a.name # None => Strip(a.name[1]) # <<>>
    /\ a.date # None => /\ parse_natural_date(a.date[1], now).ok
                        /\ parse_natural_date(a.date[1], now).date >= now
    /\ a.time # None => (IsHHMM(a.time[1]) /\ ~OutOfHours(a.time[1]))
    /\ a.party # None => a.party[1] \in 1..MAX_PARTY_SIZE

\* the row that replacing exactly the supplied fields of `old` gives
Replaced(old, a, now) ==
    [id |-> old.id,
     name |-> IF a.name = None THEN old.name ELSE Strip(a.name[1]),
     date |-> IF a.date = None THEN old.date ELSE parse_natural_date(a.date[1], now).date,
     time |-> IF a.time = None THEN old.time ELSE a.time[1],
     guests |-> IF a.party = None THEN old.guests ELSE a.party[1]]

\* C13: with the store answering, modify_reservation on an existing id with
\* at least one field supplied and every supplied field valid succeeds,
\* replaces exactly the supplied fields of that row and changes no other row.
C13_ModifyReplacesSupplied ==
    [][(/\ last'.op = "modify_reservation"
        /\ last' # last
        /\ last'.fault = NoFault
        /\ ChangeValid(last'.args, today)
        /\ \E r \in bookings : r.id = last'.id)
       => /\ last'.out = "Modified"
          /\ bookings' =
               {IF r.id = last'.id THEN Replaced(r, last'.args, today) ELSE r : r \in bookings}]_vars

\* C14: with the store answering, modify_reservation given a name and a date
\* that book_table accepts, on an existing id, succeeds and stores the date
\* that book_table would store.
C14_ModifyAcceptsBookDates ==
    [][(/\ last'.op = "modify_reservation"
        /\ last' # last
        /\ last'.fault = NoFault
        /\ ChangeValid(last'.args, today)
        /\ last'.args.name # None
        /\ last'.args.date # None
        /\ \E r \in bookings : r.id = last'.id)
       => /\ last'.out = "Modified"
          /\ \E r \in bookings' :
                /\ r.id = last'.id
                /\ r.date = parse_natural_date(last'.args.date[1], today).date]_vars

\* C15: a modify_reservation call that returns an error without the store
\* having failed on the update issues no update and leaves every row as it
\* was; an id that no row has gives the not-found error, and an existing id
\* with no optional argument gives the no-changes-provided error.
C15_FailedModifyWritesNothing ==
    [][(last'.op = "modify_reservation" /\ last' # last)
       => /\ (last'.out # "Modified" /\ ~last'.fault.write)
                => (last'.io.updates = 0 /\ bookings' = bookings)
          /\ (last'.fault = NoFault /\ last'.id > 0 /\ \A r \in bookings : r.id # last'.id)
                => last'.out = "NotFound"
          /\ (last'.fault = NoFault /\ last'.args = NoChanges
              /\ \E r \in bookings : r.id = last'.id)
                => last'.out = "NoChangesProvided"]_vars

\* a call without any optional argument on an existing reservation was refused
C15_Witness ==
    /\ last.op = "modify_reservation"
    /\ last.out = "NoChangesProvided"
    /\ last.io.updates = 0
    /\ \E r \in bookings : r.id = last.id

\* what a thread has accumulated so far
Accumulated(t) == IF t \in DOMAIN booking_state THEN booking_state[t] ELSE EmptyDict

\* C16: when run_agent calls do not overlap, the merge of a call gives every
\* extracted field its new value, leaves every other field of the thread's
\* accumulator as it was, and so never makes a known field unknown.
C16_MergeFrame ==
    [][(running[1].pc = "read" /\ running'[1].pc = "merged")
       => LET t == running[1].thread_id
              updates == extract_booking_info(running[1].input_text)
              old == Accumulated(t)
          IN  IF DOMAIN updates = {} THEN booking_state' = booking_state
              ELSE /\ DOMAIN booking_state'[t] = DOMAIN old \cup DOMAIN updates
                   /\ \A k \in DOMAIN updates : booking_state'[t][k] = updates[k]
                   /\ \A k \in DOMAIN old \ DOMAIN updates : booking_state'[t][k] = old[k]
                   /\ \A x \in DOMAIN booking_state \ {t} :
                         booking_state'[x] = booking_state[x]]_vars

\* a second utterance has replaced the name and the date of the first is kept
C16_Witness ==
    /\ running[1].pc = "merged"
    /\ running[1].input_text = <<"my", "name", "is", "Dan">>
    /\ sent.thread_id = running[1].thread_id
    /\ sent.messages[Len(sent.messages)].text = <<"tomorrow">>
    /\ Accumulated(running[1].thread_id) =
          [k \in {"name", "date"} |-> IF k = "name" THEN <<"Dan">> ELSE <<"tomorrow">>]

\* C17: merging the slots of an utterance into the accumulator that already
\* holds their merge changes nothing.
C17_MergeIdempotent ==
    [][(running[1].pc = "read" /\ running'[1].pc = "merged")
       => LET t == running[1].thread_id
              updates == extract_booking_info(running[1].input_text)
          IN  DOMAIN updates # {}
              => merged_slots(booking_state'[t], updates) = booking_state'[t]]_vars

\* the utterance of the previous call on the thread has been merged again
C17_Witness ==
    /\ running[1].pc = "merged"
    /\ sent.thread_id = running[1].thread_id
    /\ sent.messages[Len(sent.messages)].text = running[1].input_text
    /\ DOMAIN extract_booking_info(running[1].input_text) # {}
    /\ Accumulated(running[1].thread_id) = extract_booking_info(running[1].input_text)

\* the summaries among the messages of the last agent.invoke
Summaries ==
    {sent.messages[i] : i \in {j \in 1..Len(sent.messages) : sent.messages[j].kind = "summary"}}

Required == {"name", "date", "time", "party_size"}
Unknown(info) == {k \in Required : k \notin DOMAIN info \/ info[k] = <<>>}
Listed(m) == {m.missing[i] : i \in 1..Len(m.missing)}

\* C18: the missing list of a summary holds exactly the fields of name, date,
\* time and party_size without a non-empty value in the state, each once, and
\* never phone.
C18_MissingExact ==
    \A m \in Summaries :
        /\ Listed(m) = Unknown(m.state)
        /\ Len(m.missing) = Cardinality(Unknown(m.state))
        /\ "phone" \notin Listed(m)

\* name and date are known: exactly time and party_size are missing
C18_Witness ==
    \E m \in Summaries :
        /\ DOMAIN m.state = {"name", "date"}
        /\ m.missing = <<"time", "party_size">>

\* C19: a summary tells the model to call book_table now exactly when name,
\* date, time and party_size are all known; otherwise it tells it to ask only
\* for the missing fields, and lists exactly those.
C19_CallNowIffComplete ==
    \A m \in Summaries :
        /\ m.instruction = "call book_table now" <=> Unknown(m.state) = {}
        /\ m.instruction # "call book_table now"
             => /\ m.instruction = "ask only for missing"
                /\ Listed(m) = Unknown(m.state)
                /\ Listed(m) \cap {k \in DOMAIN m.state : m.state[k] # <<>>} = {}

\* a summary of a complete state, without a phone number
C19_Witness ==
    \E m \in Summaries :
        /\ m.instruction = "call book_table now"
        /\ DOMAIN m.state = Required
        /\ m.missing = <<>>

\* C20: for a bare weekday name W and the reference date R, parse_natural_date
\* returns a date D on weekday W with R < D <= R + 7; when R is itself on
\* weekday W, D is R + 7.
C20_BareWeekdayIsNextOccurrence ==
    (last.op = "parse_natural_date" /\ last.args.date.form = "weekday")
    => /\ last.out = "Parsed"
       /\ today < last.row.date
       /\ last.row.date <= today + 7
       /\ (last.row.date - last.args.date.n) % 7 = 0
       /\ (today - last.args.date.n) % 7 = 0 => last.row.date = today + 7

\* the name of the reference date's own weekday gave the date a week later
C20_Witness ==
    /\ last.op = "parse_natural_date"
    /\ last.args.date.form = "weekday"
    /\ (today - last.args.date.n) % 7 = 0
    /\ last.row.date = today + 7

\* C21: every date that parse_natural_date returns is on or after the
\* reference date.
C21_ParsedNotPast ==
    (last.op = "parse_natural_date" /\ last.out = "Parsed") => last.row.date >= today

\* the positions of the system prompt in a message list
PromptAt(messages) == {i \in 1..Len(messages) : messages[i].kind = "system_prompt"}

\* C22: when run_agent calls do not overlap, the messages of the first
\* invocation on a thread begin with the system prompt and those of every later
\* invocation on that thread do not hold it, whatever happens on other threads.
C22_PromptFirstCallOnly ==
    [][(running[1].pc = "merged" /\ running'[1].pc = "idle")
       => LET t == running[1].thread_id
          IN  PromptAt(sent'.messages) = IF invocations[t] = <<>> THEN {1} ELSE {}]_vars

\* a later call on a thread went without the prompt after a call on the other
\* thread had carried it
C22_Witness ==
    /\ sent.thread_id \in Threads
    /\ \A t \in Threads : invocations[t] # <<>>
    /\ Len(invocations[sent.thread_id]) = 2
    /\ PromptAt(sent.messages) = {}

\* C27: the messages of a call end with the user's text; a summary stands just
\* before it exactly when the thread's accumulator is not empty, and it is the
\* summary of the accumulator after the merge of this call: every field
\* extracted from the text has its new value in it.
C27_SummaryAfterMerge ==
    [][(running[1].pc = "merged" /\ running'[1].pc = "idle")
       => LET t == running[1].thread_id
              text == running[1].input_text
              updates == extract_booking_info(text)
              m == sent'.messages
              n == Len(m)
              at == {i \in 1..n : m[i].kind = "summary"}
          IN  /\ n >= 1
              /\ m[n] = [role |-> "user", kind |-> "text", text |-> text]
              /\ at = IF DOMAIN Accumulated(t) # {} THEN {n - 1} ELSE {}
              /\ \A i \in at :
                    /\ m[i] = summarize_booking_info(Accumulated(t))
                    /\ \A k \in DOMAIN updates : m[i].state[k] = updates[k]]_vars

\* a later call on a thread replaced a known field, and its summary carried the
\* new value next to a field of an earlier call
C27_Witness ==
    /\ sent.thread_id \in Threads
    /\ Len(invocations[sent.thread_id]) >= 2
    /\ sent.messages[Len(sent.messages)].text = <<"my", "name", "is", "Ann">>
    /\ \E m \in Summaries :
          /\ {"name", "party_size"} \subseteq DOMAIN m.state
          /\ m.state["name"] = <<"Ann">>

\* C28: a thread counts as having received the system prompt only once an
\* invocation carrying it has succeeded: a call on a thread none of whose
\* invocations with the prompt succeeded sends the prompt.
C28_PromptResentAfterFailure ==
    [][(running[1].pc = "merged" /\ running'[1].pc = "idle")
       => LET t == running[1].thread_id
              delivered == \E i \in 1..Len(invocations[t]) :
                              invocations[t][i].prompt /\ invocations[t][i].ok
          IN  ~delivered => PromptAt(sent'.messages) = {1}]_vars

\* C29: a step of a run_agent call on one thread leaves the accumulator of
\* every other thread, and whether that thread has been sent the system
\* prompt, as they were, in every order of non-overlapping calls.
C29_ThreadIsolation ==
    [][LET t == IF running'[1].pc # "idle" THEN running'[1].thread_id
                ELSE running[1].thread_id
       IN  \A o \in Threads \ {t} :
              /\ (o \in DOMAIN booking_state') = (o \in DOMAIN booking_state)
              /\ Accumulated(o)' = Accumulated(o)
              /\ (o \in seen_threads') = (o \in seen_threads)]_vars

\* the first call on a thread merged a field into its accumulator while the
\* other thread held a different, non-empty one and had been sent the prompt
C29_Witness ==
    /\ running[1].pc = "merged"
    /\ DOMAIN extract_booking_info(running[1].input_text) # {}
    /\ \E o \in Threads \ {running[1].thread_id} :
          /\ DOMAIN Accumulated(o) # {}
          /\ Accumulated(o) # Accumulated(running[1].thread_id)
          /\ o \in seen_threads
          /\ running[1].thread_id \notin seen_threads

\* C24: extract_booking_info returns a mapping whose keys are among name,
\* date, time, party_size and phone; for "my name is Dan, party of 4 tomorrow
\* at 7pm" it returns exactly name Dan, party_size 4, date tomorrow, time 7pm.
C24_ExtractKeysAndExample ==
    last.op = "extract_booking_info"
    => /\ last.out = "Returned"
       /\ DOMAIN last.info \subseteq Fields
       /\ last.text = <<"my", "name", "is", "Dan", ",", "party", "of", "4",
                        "tomorrow", "at", "7pm">>
          => last.info = [name |-> <<"Dan">>, party_size |-> <<"4">>,
                          date |-> <<"tomorrow">>, time |-> <<"7pm">>]

\* the example utterance was extracted, four fields found
C24_Witness ==
    /\ last.op = "extract_booking_info"
    /\ Len(last.text) = 11
    /\ last.text[5] = ","
    /\ DOMAIN last.info = {"name", "party_size", "date", "time"}

\* the places of the date words of a text
DateWords(text) ==
    {i \in 1..Len(text) : text[i] \in {"today", "tomorrow", "tonight", "friday"}
                          \/ IsIsoDate(text[i]) \/ IsSlashDate(text[i])}

\* C25: for a text whose only date expression is "next <weekday>", the date
\* extracted is "next <weekday>".
C25_NextWeekdayCaptured ==
    (/\ last.op = "extract_booking_info"
     /\ \E i \in 1..Len(last.text) :
           /\ DateWords(last.text) = {i}
           /\ last.text[i] = "friday"
           /\ i > 1
           /\ last.text[i - 1] = "next")
    => /\ "date" \in DOMAIN last.info
       /\ last.info["date"] = <<"next", "friday">>

\* C26: for a text that is one name, or one name then "for N", or that then a
\* unit word, the name extracted is the name in title case and, with "for N",
\* the party size extracted is N.
C26_BareNameForN ==
    (/\ last.op = "extract_booking_info"
     /\ Len(last.text) \in 1..4
     /\ last.text[1] \in {"Dan", "dan"}
     /\ Len(last.text) >= 2 => Len(last.text) >= 3 /\ last.text[2] = "for" /\ IsNumber(last.text[3])
     /\ Len(last.text) = 4 => last.text[4] = "people")
    => /\ "name" \in DOMAIN last.info
       /\ last.info["name"] = <<"Dan">>
       /\ Len(last.text) >= 3
          => "party_size" \in DOMAIN last.info /\ last.info["party_size"] = <<last.text[3]>>

\* the outcomes in which a tool did what it was asked, or answered a question
\* of availability
Answers ==
    {"Booked", "Details", "Cancelled", "Modified", "Unavailable", "Available",
     "NotAvailable", "FullyBooked", "Daily"}

\* C23: every tool call returns a text; the text of every failure, a failure
\* of the store included, begins with "Error:", and a capacity rejection of
\* book_table is the availability message, not a failure.
C23_FailuresAreErrorStrings ==
    last.op \in {"book_table", "modify_reservation", "cancel_reservation",
                 "view_reservation", "check_table_availability"}
    => /\ FirstWord(last.out) # ""
       /\ last.out \notin Answers => FirstWord(last.out) = "Error:"
       /\ last.out = "Unavailable"
          => ~last.check.available /\ FirstWord(last.out) # "Error:"

\* C30: for the same store, date, time and party size, check_table_availability
\* reports the slot as available exactly when check_availability returns
\* available, rows stored as HH:MM:SS and a failing read of the slot included.
C30_ToolAgreesWithCheck ==
    (last.op = "check_table_availability" /\ last.args.time # <<>> /\ last.args.party > 0
       /\ last.out \notin {"UnparsableDate", "PastDate", "InvalidTimeFormat", "OutOfHours"})
    => (last.out = "Available")
       = check_availability(bookings, env, parse_natural_date(last.args.date, today).date,
                            last.args.time, last.args.party,
                            ~last.fault.check, ~last.fault.alt).available

====
